---- MODULE Spec2Model ----
(***************************************************************************)
(* Message dispatch engine of KeybaseBotPython.                            *)
(*                                                                         *)
(* Three programs share one poll loop and differ in the dispatch step:     *)
(*   "example_bot" : example_bot.py driving keybase_chat_api.KeybaseBot    *)
(*                   (regular-expression triggers),                        *)
(*   "kb_chat_api" : the same driver over kb_chat_api.KeybaseBot           *)
(*                   (first shell token looked up in the registry),        *)
(*   "kb_bot"      : kb_bot.py, a stand-alone loop around check_command.   *)
(*                                                                         *)
(* Strings are sequences of chunks.  A chunk is a run of characters that   *)
(* holds no blank and no quote (".ping", "x"), a blank or a double quote.  *)
(***************************************************************************)
EXTENDS Integers, Sequences, FiniteSets, TLC

VARIABLES prog, marksRead, registry, msgs, pc, error, first_loop, cycle,
          conversations, teams, unread_channels, users, messages, cur,
          calls, sent, log, seen, fetches, backlog, regs, arg, ret

vars == <<prog, marksRead, registry, msgs, pc, error, first_loop, cycle,
          conversations, teams, unread_channels, users, messages, cur,
          calls, sent, log, seen, fetches, backlog, regs, arg, ret>>

(* ------------------------------ bounds -------------------------------- *)
MaxMsgs == 2
MaxCycles == 3
MaxReg == 2

(* --------------------------- configuration ---------------------------- *)
\* KeybaseChat.username
username == <<"bot">>

\* the monitored team and its channel list (channels)
ConfiguredTeams == {<<"t1">>}

\* kb_bot.py monitors one channel of its team; the bot of the library is
\* given a team with two channels
channels ==
    [t \in ConfiguredTeams |-> IF prog = "kb_bot" THEN <<"c1">> ELSE <<"c1", "c2">>]


(* ------------------------------ strings ------------------------------- *)
Blank == " "

Quote == "\""

\* chunks made of word characters only ([A-Za-z0-9_]+)
WordChunks == {"x", "ass", "bot", "u1", "u2"}

\* chunks that start with punctuation and end in a word character
PunctWordChunks == {".ping", ".help", "!ping", "!help", "!uptime"}

FirstIsWord(c) == c \in WordChunks

LastIsWord(c) == c \in WordChunks \cup PunctWordChunks

RECURSIVE Concat(_)
\* ''.join(parts)
Concat(parts) ==
    IF parts = <<>> THEN <<>> ELSE Head(parts) \o Concat(Tail(parts))

\* s[k : k + len(lit)] == lit   (k is 1-based)
OccursAt(lit, s, k) ==
    /\ k + Len(lit) - 1 <= Len(s)
    /\ \A j \in 1..Len(lit) : s[k + j - 1] = lit[j]

RECURSIVE Remove(_, _)
\* s.replace(old, '')
Remove(s, old) ==
    IF s = <<>> \/ old = <<>> THEN s
    ELSE IF OccursAt(old, s, 1)
         THEN Remove(SubSeq(s, Len(old) + 1, Len(s)), old)
         ELSE <<Head(s)>> \o Remove(Tail(s), old)

(* ----------------------------- shlex.split ---------------------------- *)
RECURSIVE Lex(_, _, _, _, _)
\* the token loop of shlex (POSIX mode, no escapes in the alphabet):
\* state "ws" between tokens, "tok" inside a token, "quote" inside quotes
Lex(s, i, state, tok, toks) ==
    IF i > Len(s)
    THEN CASE state = "quote" -> [err |-> TRUE, toks |-> toks]
           [] state = "tok"   -> [err |-> FALSE, toks |-> Append(toks, tok)]
           [] OTHER           -> [err |-> FALSE, toks |-> toks]
    ELSE LET c == s[i] IN
         CASE state = "ws" ->
                IF c = Blank THEN Lex(s, i + 1, "ws", <<>>, toks)
                ELSE IF c = Quote THEN Lex(s, i + 1, "quote", <<>>, toks)
                ELSE Lex(s, i + 1, "tok", <<c>>, toks)
           [] state = "tok" ->
                IF c = Blank THEN Lex(s, i + 1, "ws", <<>>, Append(toks, tok))
                ELSE IF c = Quote THEN Lex(s, i + 1, "quote", tok, toks)
                ELSE Lex(s, i + 1, "tok", Append(tok, c), toks)
           [] OTHER ->
                IF c = Quote THEN Lex(s, i + 1, "tok", tok, toks)
                ELSE Lex(s, i + 1, "quote", Append(tok, c), toks)

\* shlex.split(s): err stands for ValueError("No closing quotation")
split(s) == Lex(s, 1, "ws", <<>>, <<>>)

(* ------------------------------ re.search ----------------------------- *)
\* A pattern is the text of a regular expression: an optional leading "^",
\* then a literal that may be enclosed in "\\b" word-boundary assertions.
Anchored(p) == Len(p) > 0 /\ p[1] = "^"

Unanchored(p) == IF Anchored(p) THEN Tail(p) ELSE p

BoundLeft(p) == Len(Unanchored(p)) > 0 /\ Unanchored(p)[1] = "\\b"

NoLeft(p) == IF BoundLeft(p) THEN Tail(Unanchored(p)) ELSE Unanchored(p)

BoundRight(p) == Len(NoLeft(p)) > 0 /\ NoLeft(p)[Len(NoLeft(p))] = "\\b"

Literal(p) ==
    IF BoundRight(p) THEN SubSeq(NoLeft(p), 1, Len(NoLeft(p)) - 1) ELSE NoLeft(p)

\* \b between s[k-1] and s[k]
WordBoundary(s, k) ==
    LET before == k > 1 /\ k - 1 <= Len(s) /\ LastIsWord(s[k - 1])
        after  == k >= 1 /\ k <= Len(s) /\ FirstIsWord(s[k])
    IN  before # after

\* re.search(p, s) is not None
re_search(p, s) ==
    \E k \in 1..(Len(s) + 1) :
        /\ Anchored(p) => k = 1
        /\ OccursAt(Literal(p), s, k)
        /\ BoundLeft(p) => WordBoundary(s, k)
        /\ BoundRight(p) => WordBoundary(s, k + Len(Literal(p)))

(* ------------------------------ backend ------------------------------- *)
\* conversation['channel'] of a team channel and of a one-to-one thread
TeamSurface(t, c) == [type |-> "team", name |-> t, channel |-> c]

UserSurface(u) == [type |-> "individual", name |-> username \o <<",">> \o u, channel |-> ""]

\* the conversations of the backend, in the order the list request gives them
SurfaceList ==
    <<TeamSurface(<<"t1">>, "c1"), TeamSurface(<<"t1">>, "c2"),
      TeamSurface(<<"t2">>, "c1"), UserSurface(<<"u1">>)>>

Surfaces == {SurfaceList[i] : i \in 1..Len(SurfaceList)}

\* the conversations a program reads: the configured channels, the individuals
Monitored ==
    {surf \in Surfaces :
        \/ surf.type = "individual"
        \/ /\ surf.name \in DOMAIN channels
           /\ \E i \in 1..Len(channels[surf.name]) : channels[surf.name][i] = surf.channel}

\* who writes on a surface
SendersOf(surf) == IF surf.type = "team" THEN {"u2"} ELSE {"u1"}

RECURSIVE Desc(_)
\* n, n-1, ..., 1: the backend returns the newest message first
Desc(n) == IF n = 0 THEN <<>> ELSE <<n>> \o Desc(n - 1)

\* result.conversations of the "list" method: the conversations that hold
\* a message (ms gives every conversation its messages, oldest first)
ConvList(ms) ==
    LET Exists(surf) == ms[surf] # <<>>
    IN  SelectSeq(SurfaceList, Exists)

\* conversation['unread']
ConvUnread(ms, surf) == \E i \in 1..Len(ms[surf]) : ms[surf][i].unread

\* whole_name.replace(self.username, '').replace(',', '')
individual_name(whole_name, self_username) ==
    Remove(Remove(whole_name, self_username), <<",">>)

\* the name get_conversations gives a one-to-one conversation
IndividualName(whole_name) == individual_name(whole_name, username)

RECURSIVE Keys(_, _)
\* the keys of a dict filled in the order of seq, each at its first insertion
Keys(seq, i) ==
    IF i > Len(seq) THEN <<>>
    ELSE IF \E j \in 1..(i - 1) : seq[j] = seq[i]
         THEN Keys(seq, i + 1)
         ELSE <<seq[i]>> \o Keys(seq, i + 1)

\* KeybaseChat.get_conversations: the dicts as functions plus their key order
get_conversations(ms) ==
    LET convs == ConvList(ms)
        IsTeam(c) == c.type = "team"
        IsUser(c) == c.type = "individual"
        tconv == SelectSeq(convs, IsTeam)
        uconv == SelectSeq(convs, IsUser)
        tnames == [i \in 1..Len(tconv) |-> tconv[i].name]
        unames == [i \in 1..Len(uconv) |-> IndividualName(uconv[i].name)]
        Last(n) == CHOOSE i \in 1..Len(uconv) :
                      /\ unames[i] = n
                      /\ \A j \in (i + 1)..Len(uconv) : unames[j] # n
    IN  [teams |-> [t \in {tnames[i] : i \in 1..Len(tnames)} |->
                      [c \in {tconv[i].channel : i \in {k \in 1..Len(tconv) : tconv[k].name = t}} |->
                          ConvUnread(ms, TeamSurface(t, c))]],
         team_keys |-> Keys(tnames, 1),
         individuals |-> [n \in {unames[i] : i \in 1..Len(unames)} |->
                            ConvUnread(ms, uconv[Last(n)])],
         user_keys |-> Keys(unames, 1)]

\* the snapshot before the first poll
NoConversations ==
    [teams |-> <<>>, team_keys |-> <<>>, individuals |-> <<>>, user_keys |-> <<>>]

\* mutant: the unread test of the filter is forgotten
UnreadFilterAnyText(m) == m.ctype = "text"

\* the filter of get_team_messages and get_user_messages on one message
UnreadFilter(m) == m.unread /\ m.ctype = "text"

\* mutant: every message of the conversation is returned
NewMessagesAll(ms, surf) == Desc(Len(ms[surf]))

\* mutant: the messages are sorted by id, oldest first
NewMessagesSorted(ms, surf) ==
    LET Keep(i) == ms[surf][i].unread /\ ms[surf][i].ctype = "text"
    IN  SelectSeq([i \in 1..Len(ms[surf]) |-> i], Keep)

\* get_team_messages / get_user_messages: the ids of the unread text
\* messages of the conversation, in the order the backend returns them
NewMessages(ms, surf) ==
    LET Keep(i) == UnreadFilter(ms[surf][i])
    IN  SelectSeq(Desc(Len(ms[surf])), Keep)

\* the "read" method marks the conversation read when the backend keeps the
\* contract of its interface
ReadEffect(ms, surf, marks) ==
    IF marks
    THEN [ms EXCEPT ![surf] = [i \in 1..Len(ms[surf]) |->
                                 [ms[surf][i] EXCEPT !.unread = FALSE]]]
    ELSE ms

\* send_team_message / send_user_message: the request handed to the backend
send_team_message(team, message, channel) ==
    [name |-> team, members_type |-> "team", topic_name |-> channel, body |-> message]

send_user_message(user, message) ==
    [name |-> username \o <<",">> \o user, members_type |-> "", topic_name |-> "",
     body |-> message]

(* ------------------------------ registry ------------------------------ *)
\* func.__doc__ of a handler without documentation
None == <<"<None>">>

\* '{}'.format(v)
Format(v) == IF v = None THEN <<"None">> ELSE v

\* mutant: the dict is emptied before the entry is written
PutFresh(reg, key, entry) == <<entry>>

\* mutant: an entry that exists is kept (dict.setdefault)
PutKeepFirst(reg, key, entry) ==
    IF \E i \in 1..Len(reg) : reg[i].command = key THEN reg ELSE Append(reg, entry)

\* mutant: the key is deleted and written again (del d[key]; d[key] = entry)
PutMoveToEnd(reg, key, entry) ==
    LET Other(e) == e.command # key
    IN  Append(SelectSeq(reg, Other), entry)

\* self._commands[key] = entry on an insertion-ordered dict
Put(reg, key, entry) ==
    IF \E i \in 1..Len(reg) : reg[i].command = key
    THEN [i \in 1..Len(reg) |-> IF reg[i].command = key THEN entry ELSE reg[i]]
    ELSE Append(reg, entry)

\* the keys of the registry, in dict order
Commands(reg) == [i \in 1..Len(reg) |-> reg[i].command]

\* self.get_commands()[key]
Lookup(reg, key) == reg[CHOOSE i \in 1..Len(reg) : reg[i].command = key]

\* keybase_chat_api.KeybaseBot.__init__ as example_bot.py calls it
InitRegistry ==
    <<[f |-> "help_cmd", command |-> <<"^", ".help">>, help_trigger |-> <<".help">>,
       show_help |-> TRUE, help |-> <<"Show available commands">>]>>

\* kb_chat_api.KeybaseBot.__init__ with its default help_command
InitRegistryOld ==
    <<[f |-> "help_cmd", command |-> <<"!help">>, args |-> None,
       help |-> <<"Show available commands">>]>>

\* the @bot.command(...) decorations of example_bot.py
Decorations ==
    {[cmd |-> <<"^", ".ping">>, f |-> "ping_cmd", help_trigger |-> <<".ping">>,
      show_help |-> TRUE, doc |-> <<"Respond with 'pong!'">>],
     [cmd |-> <<"\\b", "ass", "\\b">>, f |-> "swear_cmd",
      help_trigger |-> <<"\\b", "ass", "\\b">>,
      show_help |-> FALSE, doc |-> <<"Respond to swear words">>]}

\* a decoration for the bot of kb_chat_api.py: @bot.command('!ping')
DecorationsOld ==
    {[cmd |-> <<"!ping">>, f |-> "ping_cmd", args |-> None,
      doc |-> <<"Respond with 'pong!'">>]}

\* the wrapper of keybase_chat_api.KeybaseBot._command_registry
make_command(reg, d) ==
    Put(reg, d.cmd,
        [f |-> d.f, command |-> d.cmd, help_trigger |-> d.help_trigger,
         show_help |-> d.show_help, help |-> d.doc])

\* the wrapper of kb_chat_api.KeybaseBot._command_registry
make_command_old(reg, d) ==
    Put(reg, d.cmd, [f |-> d.f, command |-> d.cmd, args |-> d.args, help |-> d.doc])

(* ------------------------------ handlers ------------------------------ *)
\* mutant: the mention is put before every reply
respond_mention_all(response_text, message_data, at_mention) ==
    LET at == IF at_mention THEN <<"@", message_data.sender, ", ">> ELSE <<>>
    IN  IF message_data.type = "team"
        THEN send_team_message(message_data.team, at \o response_text,
                               message_data.channel)
        ELSE send_user_message(<<message_data.sender>>, at \o response_text)

\* "BQ" is the chunk of one backquote, "BQ3" of three
\* KeybaseBot.respond: the request it sends
respond(response_text, message_data, at_mention) ==
    IF message_data.type = "team"
    THEN LET at == IF at_mention THEN <<"@", message_data.sender, ", ">> ELSE <<>>
         IN  send_team_message(message_data.team, at \o response_text,
                               message_data.channel)
    ELSE send_user_message(<<message_data.sender>>, response_text)

RECURSIVE HelpTextAllEntries(_, _)
\* mutant: the test of show_help is forgotten
HelpTextAllEntries(reg, i) ==
    IF i > Len(reg) THEN <<>>
    ELSE <<"BQ">> \o Format(reg[i].help_trigger) \o <<"BQ", "\n">>
         \o <<"BQ3", "    ">> \o Format(reg[i].help) \o <<"BQ3", "\n\n">>
         \o HelpTextAllEntries(reg, i + 1)

RECURSIVE HelpTextTriggersOnly(_, _)
\* mutant: the block of the help text is left empty
HelpTextTriggersOnly(reg, i) ==
    IF i > Len(reg) THEN <<>>
    ELSE (IF reg[i].show_help
          THEN <<"BQ">> \o Format(reg[i].help_trigger) \o <<"BQ", "\n">>
               \o <<"BQ3", "    ", "BQ3", "\n\n">>
          ELSE <<>>)
         \o HelpTextTriggersOnly(reg, i + 1)

RECURSIVE HelpText(_, _)
\* the loop of keybase_chat_api.KeybaseBot.help_cmd over the registry
HelpText(reg, i) ==
    IF i > Len(reg) THEN <<>>
    ELSE (IF reg[i].show_help
          THEN <<"BQ">> \o Format(reg[i].help_trigger) \o <<"BQ", "\n">>
               \o <<"BQ3", "    ">> \o Format(reg[i].help) \o <<"BQ3", "\n\n">>
          ELSE <<>>)
         \o HelpText(reg, i + 1)

RECURSIVE HelpTextOld(_, _)
\* the loop of kb_chat_api.KeybaseBot.help_cmd over the registry
HelpTextOld(reg, i) ==
    IF i > Len(reg) THEN <<>>
    ELSE <<"BQ">> \o Format(reg[i].command)
         \o (IF reg[i].args # None THEN <<" ">> \o Format(reg[i].args) ELSE <<>>)
         \o <<"BQ", "\n">> \o <<"BQ3", "    ">> \o Format(reg[i].help) \o <<"BQ3", "\n\n">>
         \o HelpTextOld(reg, i + 1)

\* mutant: the help text goes to the thread of the sender
help_send_private(help_text, message_data) ==
    send_user_message(<<message_data.sender>>, help_text)

\* the request of help_cmd: to the surface of the message, without mention
help_send(help_text, message_data) ==
    IF message_data.type = "team"
    THEN send_team_message(message_data.team, help_text, message_data.channel)
    ELSE send_user_message(<<message_data.sender>>, help_text)

\* what a handler does with a message: the lines it logs before it sends
\* and the request it sends
Handler(f, message_data, reg, old) ==
    CASE f = "ping_cmd" ->
           [logs |-> <<>>, send |-> respond(<<"pong!">>, message_data, TRUE)]
      [] f = "swear_cmd" ->
           [logs |-> <<>>,
            send |-> respond(<<"Please dont use that kind of language in here.">>,
                             message_data, TRUE)]
      [] OTHER ->
           IF old
           THEN [logs |-> <<>>, send |-> help_send(HelpTextOld(reg, 1), message_data)]
           ELSE [logs |-> <<"all_cmds", "cmds_list">>,
                 send |-> help_send(HelpText(reg, 1), message_data)]

\* mutant: the handler deletes the first entry of the dict
RegistryAfterPop(f, reg) == IF reg = <<>> THEN reg ELSE Tail(reg)

\* self._commands after a handler ran: ping_cmd and swear_cmd only call
\* respond, help_cmd reads the copy get_commands gave it, check_command of
\* kb_bot.py has no registry
RegistryAfter(f, reg) == reg

(* ------------------------------ dispatch ------------------------------ *)
\* the outcome of the body of the loop over messages.items() for one
\* message: raise (an exception that leaves the loop, "" for none), the
\* handler called, the lines logged before and after the send, the request
NoOutcome ==
    [raise |-> "", call |-> <<>>, pre |-> <<>>, send |-> <<>>, post |-> <<>>]

\* mutant: the re.search test of the comprehension is forgotten
found_cmds_all(reg, body) == Commands(reg)

\* found_cmds of keybase_chat_api.KeybaseBot.check_messages
found_cmds(reg, body) ==
    LET Found(cmd) == re_search(cmd, body)
    IN  SelectSeq(Commands(reg), Found)

\* mutant: the last match wins
TriggerLast(found) == found[Len(found)]

\* trigger = found_cmds[0]
Trigger(found) == found[1]

\* mutant: the test before the dispatch is forgotten
RespondingAlways(first) == TRUE

\* mutant: the sense of the flag is inverted
RespondingInverted(first) == first

\* the test before the dispatch: if respond / if not first_loop
Responding(first) == ~first

\* keybase_chat_api.KeybaseBot.check_messages, one message
DispatchRegex(reg, message_data, respond_flag) ==
    IF ~respond_flag THEN NoOutcome
    ELSE LET found == found_cmds(reg, message_data.body) IN
         IF Len(found) > 0
         THEN LET trigger == Trigger(found)
                  f == Lookup(reg, trigger).f
                  h == Handler(f, message_data, reg, FALSE)
              IN  [raise |-> "", call |-> <<[cmd |-> trigger, f |-> f]>>,
                   pre |-> h.logs, send |-> <<h.send>>, post |-> <<"Trigger found">>]
         ELSE NoOutcome

\* kb_chat_api.KeybaseBot.check_messages, one message
DispatchToken(reg, message_data, respond_flag) ==
    IF ~respond_flag THEN NoOutcome
    ELSE LET sp == split(message_data.body) IN
         IF ~sp.err /\ sp.toks = <<>>
         THEN [NoOutcome EXCEPT !.raise = "IndexError"]
         ELSE LET found_cmd == IF sp.err THEN message_data.body ELSE sp.toks[1] IN
              IF \E i \in 1..Len(reg) : reg[i].command = found_cmd
              THEN IF sp.err
                   THEN [NoOutcome EXCEPT !.raise = "ValueError"]
                   ELSE LET trigger == sp.toks[1]
                            f == Lookup(reg, trigger).f
                            h == Handler(f, message_data, reg, TRUE)
                        IN  [raise |-> "", call |-> <<[cmd |-> trigger, f |-> f]>>,
                             pre |-> <<"Trigger found">> \o h.logs,
                             send |-> <<h.send>>, post |-> <<"Result">>]
              ELSE NoOutcome

\* str.lower on the chunks of a token
Lower(tok) ==
    [i \in 1..Len(tok) |->
        CASE tok[i] = "!PING" -> "!ping"
          [] tok[i] = "!HELP" -> "!help"
          [] OTHER -> tok[i]]

\* kb_bot.check_command on the bodies of the model (none holds !roll):
\* raise, the lines printed, [response_code, response]
check_command(message) ==
    LET sp == split(message) IN
    IF sp.err
    THEN [raise |-> "", prints |-> <<"error parsing message.">>, code |-> 0, msg |-> None]
    ELSE IF sp.toks = <<>>
    THEN [raise |-> "IndexError", prints |-> <<>>, code |-> 0, msg |-> None]
    ELSE LET command == sp.toks
             c0 == Lower(command[1])
         IN  CASE c0 = <<"!uptime">> /\ Len(command) = 1 ->
                    [raise |-> "", prints |-> <<>>, code |-> 1, msg |-> <<"uptime">>]
               [] c0 = <<"!ping">> /\ Len(command) = 1 ->
                    [raise |-> "", prints |-> <<>>, code |-> 2, msg |-> <<"pong!">>]
               [] c0 = <<"!help">> /\ Len(command) = 1 ->
                    [raise |-> "", prints |-> <<>>, code |-> 1, msg |-> <<"command_list">>]
               [] OTHER ->
                    [raise |-> "", prints |-> <<>>, code |-> 0, msg |-> None]

\* the loop body of kb_bot.py for one message
DispatchCommand(message_data, first) ==
    IF ~Responding(first) THEN NoOutcome
    ELSE LET res == check_command(message_data.body) IN
         IF res.raise # "" THEN [NoOutcome EXCEPT !.raise = res.raise]
         ELSE IF res.code = 0 THEN [NoOutcome EXCEPT !.pre = res.prints]
         ELSE [raise |-> "",
               call |-> <<[cmd |-> Lower(split(message_data.body).toks[1]),
                           f |-> "check_command"]>>,
               pre |-> res.prints \o <<"command received">>,
               send |-> <<IF message_data.type = "team"
                          THEN IF res.code = 1
                               THEN send_team_message(message_data.team, res.msg,
                                                      message_data.channel)
                               ELSE send_team_message(message_data.team,
                                        <<"@", message_data.sender, ", ">> \o res.msg,
                                        message_data.channel)
                          ELSE send_user_message(<<message_data.sender>>, res.msg)>>,
               post |-> <<>>]

(* ------------------------------- state -------------------------------- *)
\* the message bodies the model sends to each program
Bodies(p) ==
    CASE p = "example_bot" -> {<<".ping", " ", "ass">>, <<"x">>}
      [] p = "kb_chat_api" -> {<<"!ping">>, <<" ">>, <<"\"", "!ping">>}
      [] OTHER             -> {<<"!PING">>, <<" ">>, <<"\"", "!ping">>}

\* message['msg']['content'] of what is written on a conversation: a text
\* with a body or, for example_bot, an attachment; one text where no program
\* of the model reads
Contents(p, surf) ==
    IF surf \notin Monitored
    THEN {[ctype |-> "text", body |-> <<"x">>]}
    ELSE {[ctype |-> "text", body |-> b] : b \in Bodies(p)}
         \cup (IF p = "example_bot"
               THEN {[ctype |-> "attachment", body |-> <<>>]} ELSE {})

RECURSIVE Total(_, _)
\* the number of messages of the backend
Total(ms, i) ==
    IF i > Len(SurfaceList) THEN 0
    ELSE Len(ms[SurfaceList[i]]) + Total(ms, i + 1)

NoError == [exc |-> "", at |-> ""]

\* no call of a library function from outside the poll loop was made
NoCall ==
    [op |-> "", response_text |-> <<>>, message_data |-> <<>>, at_mention |-> FALSE,
     n |-> 0]

\* the loop variables team, channel and user of the poll cycle
NoCurrent == [type |-> "", team |-> <<>>, channel |-> "", user |-> <<>>]

\* message_data of the message with this id
MessageData(id) ==
    [type |-> cur.type, body |-> msgs[id.surf][id.n].body,
     sender |-> msgs[id.surf][id.n].sender,
     team |-> cur.team, channel |-> cur.channel]

\* the loop body of the running program on the message with this id
Outcome(id) ==
    CASE prog = "example_bot" ->
           DispatchRegex(registry, MessageData(id), Responding(first_loop))
      [] prog = "kb_chat_api" ->
           DispatchToken(registry, MessageData(id), Responding(first_loop))
      [] OTHER -> DispatchCommand(MessageData(id), first_loop)

\* marks: whether the backend marks the messages a read request returns read
InitVars(progs, marks) ==
    /\ prog \in progs
    /\ marksRead \in marks
    /\ registry = CASE prog = "example_bot" -> InitRegistry
                    [] prog = "kb_chat_api" -> InitRegistryOld
                    [] OTHER -> <<>>
    /\ msgs = [surf \in Surfaces |-> <<>>]
    /\ pc = "setup"
    /\ error = NoError
    /\ first_loop = TRUE
    /\ cycle = 0
    /\ conversations = NoConversations
    /\ teams = <<>>
    /\ unread_channels = <<>>
    /\ users = <<>>
    /\ messages = <<>>
    /\ cur = NoCurrent
    /\ calls = <<>>
    /\ sent = <<>>
    /\ log = <<>>
    /\ seen = {}
    /\ fetches = {}
    /\ backlog = [surf \in Surfaces |-> 0]
    /\ regs = <<>>
    /\ arg = NoCall
    /\ ret = NoCall

\* example_bot.py over keybase_chat_api.py, and kb_bot.py
\* on a backend that marks what it returns read
Init == InitVars({"example_bot", "kb_bot"}, {TRUE})

\* the same programs on a backend that leaves what it returns unread
InitUnread == InitVars({"example_bot", "kb_bot"}, {FALSE})

\* the programs that split the body into shell tokens: kb_bot.py, and the
\* bot of kb_chat_api.py under the loop of example_bot.py
InitTok == InitVars({"kb_bot", "kb_chat_api"}, BOOLEAN)

loopVars == <<conversations, teams, unread_channels, users, messages, cur>>

\* what the program did, kept for the properties; backlog is the number of
\* messages each conversation held when the first cycle began
history == <<calls, sent, log, seen, fetches, backlog>>

\* the decorations applied so far, and the arguments and the result of the
\* last call a handler or a test made of a function of the library
libVars == <<regs, arg, ret>>

\* the process ends with an exception nobody catches
Crash(exc, at) ==
    /\ pc' = "crashed"
    /\ error' = [exc |-> exc, at |-> at]

(* ------------------------------ actions ------------------------------- *)
\* the decorations a program can apply
DecorationsOf(p) ==
    CASE p = "example_bot" -> Decorations
      [] p = "kb_chat_api" -> DecorationsOld
      [] OTHER -> {}

\* every decoration of the program has run
Registered ==
    \A d \in DecorationsOf(prog) : \E i \in 1..Len(registry) : registry[i].command = d.cmd

\* the program is about to ask the backend for conversations or messages
BeforeRead ==
    \/ (pc = "setup" /\ Registered)
    \/ pc = "idle"
    \/ pc \in {"teams", "users"} /\ messages = <<>>

\* somebody writes to a conversation; the program sees the backend only in
\* its requests, so a message that arrives between two requests arrives
\* before the later one
Arrive(surf, sender, content) ==
    /\ BeforeRead
    /\ Total(msgs, 1) < MaxMsgs
    /\ msgs' = [msgs EXCEPT ![surf] =
                   Append(@, [sender |-> sender, ctype |-> content.ctype,
                              body |-> content.body, unread |-> TRUE])]
    /\ UNCHANGED <<prog, marksRead, registry, pc, error, first_loop, cycle,
                   loopVars, history>>
    /\ UNCHANGED libVars

\* @bot.command(...)(func): the module registers its commands when it is
\* loaded, each once and in any order, before it polls
Register(d) ==
    /\ pc = "setup"
    /\ \A i \in 1..Len(registry) : registry[i].command # d.cmd
    /\ registry' = IF prog = "example_bot" THEN make_command(registry, d)
                   ELSE make_command_old(registry, d)
    /\ UNCHANGED <<prog, marksRead, msgs, pc, error, first_loop, cycle,
                   loopVars, history>>
    /\ regs' = Append(regs, d)
    /\ UNCHANGED <<arg, ret>>

\* the teams of the snapshot the configuration knows
KnownTeams(conv) ==
    LET Known(t) == t \in DOMAIN channels
    IN  SelectSeq(conv.team_keys, Known)

\* a configured channel of the team that the snapshot does not hold
MissingChannel(conv, team) ==
    \E i \in 1..Len(channels[team]) : channels[team][i] \notin DOMAIN conv.teams[team]

\* unread_channels of the team
UnreadChannels(conv, team) ==
    LET Unread(c) == conv.teams[team][c]
    IN  SelectSeq(channels[team], Unread)

\* mutant: the unread test of the comprehension over the individuals is
\* forgotten
UnreadUsersAll(conv) == conv.user_keys

\* users: the unread individuals of the snapshot
UnreadUsers(conv) ==
    LET Unread(u) == conv.individuals[u]
    IN  SelectSeq(conv.user_keys, Unread)

\* the position of the program in the poll cycle
Here ==
    [pc |-> pc, teams |-> teams, unread_channels |-> unread_channels, users |-> users,
     cur |-> cur, error |-> error, first_loop |-> first_loop]

SetLoop(st) ==
    /\ pc' = st.pc
    /\ teams' = st.teams
    /\ unread_channels' = st.unread_channels
    /\ users' = st.users
    /\ cur' = st.cur
    /\ error' = st.error
    /\ first_loop' = st.first_loop

\* mutant: the flag is flipped at the end of every cycle
EndOfCycleFlip(first) == ~first

\* the flag after the last statement of the loop body:
\* if first_loop: first_loop = False
EndOfCycle(first) == IF first THEN FALSE ELSE first

RECURSIVE Advance(_, _)
\* The cycle between two requests to the backend, with no message left to
\* dispatch: the next team and its unread channels (KeyError when the
\* snapshot lacks a configured channel), after the last team the unread
\* individuals, after the last individual the end of the cycle, which
\* clears first_loop.
Advance(conv, st) ==
    IF st.pc = "teams" /\ st.unread_channels = <<>>
    THEN IF st.teams # <<>>
         THEN IF MissingChannel(conv, Head(st.teams))
              THEN [st EXCEPT !.pc = "crashed",
                              !.error = [exc |-> "KeyError", at |-> "unread_channels"]]
              ELSE Advance(conv,
                     [st EXCEPT !.unread_channels = UnreadChannels(conv, Head(st.teams)),
                                !.cur = [NoCurrent EXCEPT !.type = "team",
                                                          !.team = Head(st.teams)],
                                !.teams = Tail(st.teams)])
         ELSE Advance(conv, [st EXCEPT !.pc = "users", !.users = UnreadUsers(conv)])
    ELSE IF st.pc = "users" /\ st.users = <<>>
    THEN [st EXCEPT !.pc = "idle", !.first_loop = EndOfCycle(st.first_loop)]
    ELSE st

\* a poll cycle begins: get_conversations, then on to the first request
StartCycle ==
    /\ (pc = "setup" /\ Registered) \/ pc = "idle"
    /\ cycle < MaxCycles
    /\ cycle' = cycle + 1
    /\ conversations' = get_conversations(msgs)
    /\ SetLoop(Advance(conversations',
                       [Here EXCEPT !.pc = "teams",
                                    !.teams = KnownTeams(conversations'),
                                    !.cur = NoCurrent]))
    /\ backlog' = IF cycle = 0 THEN [surf \in Surfaces |-> Len(msgs[surf])] ELSE backlog
    /\ UNCHANGED <<prog, marksRead, registry, msgs, messages,
                   calls, sent, log, seen, fetches>>
    /\ UNCHANGED libVars

\* a read request and what it does to the loop and to the backend
Fetch(surf, st) ==
    /\ LET new == NewMessages(msgs, surf)
       IN  messages' = [i \in 1..Len(new) |-> [surf |-> surf, n |-> new[i]]]
    /\ msgs' = ReadEffect(msgs, surf, marksRead)
    /\ seen' = seen \cup {<<messages'[i], cycle>> : i \in 1..Len(messages')}
    /\ fetches' = fetches \cup {[cycle |-> cycle, surf |-> surf]}
    /\ SetLoop(IF messages' = <<>> THEN Advance(conversations, st) ELSE st)

\* for channel in unread_channels: get_team_messages
FetchTeam ==
    /\ pc = "teams"
    /\ messages = <<>>
    /\ unread_channels # <<>>
    /\ Fetch(TeamSurface(cur.team, Head(unread_channels)),
             [Here EXCEPT !.cur.channel = Head(unread_channels),
                          !.unread_channels = Tail(unread_channels)])
    /\ UNCHANGED <<prog, marksRead, registry, cycle, conversations, calls, sent, log,
                   backlog>>
    /\ UNCHANGED libVars

\* for user in users: get_user_messages
FetchUser ==
    /\ pc = "users"
    /\ messages = <<>>
    /\ users # <<>>
    /\ Fetch(UserSurface(Head(users)),
             [Here EXCEPT !.cur = [NoCurrent EXCEPT !.type = "individual",
                                                    !.user = Head(users)],
                          !.users = Tail(users)])
    /\ UNCHANGED <<prog, marksRead, registry, cycle, conversations, calls, sent, log,
                   backlog>>
    /\ UNCHANGED libVars

\* the backend fails on a read request
FetchFails ==
    /\ pc \in {"teams", "users"}
    /\ messages = <<>>
    /\ Crash("CalledProcessError", "read")
    /\ UNCHANGED <<prog, marksRead, registry, msgs, first_loop, cycle,
                   loopVars, history>>
    /\ UNCHANGED libVars

Stamp(id, lines) == [i \in 1..Len(lines) |-> [msg |-> id, cycle |-> cycle, line |-> lines[i]]]

\* the loop body on the next message, to its end, and on to the next request
Dispatch ==
    /\ pc \in {"teams", "users"}
    /\ messages # <<>>
    /\ LET id == Head(messages)
           o == Outcome(id)
       IN  /\ o.raise = ""
           /\ calls' = calls \o [i \in 1..Len(o.call) |->
                                   [msg |-> id, cycle |-> cycle, cmd |-> o.call[i].cmd,
                                    f |-> o.call[i].f, ok |-> TRUE]]
           /\ sent' = sent \o [i \in 1..Len(o.send) |->
                                 [msg |-> id, cycle |-> cycle, req |-> o.send[i]]]
           /\ log' = log \o Stamp(id, o.pre \o o.post)
           /\ registry' = IF o.call = <<>> THEN registry
                          ELSE RegistryAfter(o.call[1].f, registry)
    /\ messages' = Tail(messages)
    /\ SetLoop(IF messages' = <<>> THEN Advance(conversations, Here) ELSE Here)
    /\ UNCHANGED <<prog, marksRead, msgs, cycle, conversations, seen, fetches,
                   backlog>>
    /\ UNCHANGED libVars

\* the loop body raises before any handler runs
DispatchRaises ==
    /\ pc \in {"teams", "users"}
    /\ messages # <<>>
    /\ Outcome(Head(messages)).raise # ""
    /\ Crash(Outcome(Head(messages)).raise, "dispatch")
    /\ UNCHANGED <<prog, marksRead, registry, msgs, first_loop, cycle,
                   loopVars, history>>
    /\ UNCHANGED libVars

\* mutant: respond catches the failure and sends again, with success
SendFailsRetried ==
    /\ pc \in {"teams", "users"}
    /\ messages # <<>>
    /\ LET id == Head(messages)
           o == Outcome(id)
       IN  /\ o.raise = ""
           /\ o.send # <<>>
           /\ calls' = calls \o [i \in 1..Len(o.call) |->
                                   [msg |-> id, cycle |-> cycle, cmd |-> o.call[i].cmd,
                                    f |-> o.call[i].f, ok |-> FALSE]]
           /\ sent' = sent \o [i \in 1..Len(o.send) |->
                                 [msg |-> id, cycle |-> cycle, req |-> o.send[i]]]
           /\ log' = log \o Stamp(id, o.pre)
    /\ messages' = Tail(messages)
    /\ SetLoop(IF messages' = <<>> THEN Advance(conversations, Here) ELSE Here)
    /\ UNCHANGED <<prog, marksRead, registry, msgs, cycle, conversations, seen, fetches,
                   backlog>>
    /\ UNCHANGED libVars

\* the backend fails on the send request of the handler: the handler raises
SendFails ==
    /\ pc \in {"teams", "users"}
    /\ messages # <<>>
    /\ LET id == Head(messages)
           o == Outcome(id)
       IN  /\ o.raise = ""
           /\ o.send # <<>>
           /\ calls' = calls \o [i \in 1..Len(o.call) |->
                                   [msg |-> id, cycle |-> cycle, cmd |-> o.call[i].cmd,
                                    f |-> o.call[i].f, ok |-> FALSE]]
           /\ log' = log \o Stamp(id, o.pre)
    /\ Crash("CalledProcessError", "send")
    /\ UNCHANGED <<prog, marksRead, registry, msgs, first_loop, cycle,
                   loopVars, sent, seen, fetches, backlog>>
    /\ UNCHANGED libVars

Next ==
    \/ \E surf \in Surfaces : \E sender \in SendersOf(surf) :
          \E content \in Contents(prog, surf) : Arrive(surf, sender, content)
    \/ \E d \in DecorationsOf(prog) : Register(d)
    \/ StartCycle
    \/ FetchTeam
    \/ FetchUser
    \/ FetchFails
    \/ Dispatch
    \/ DispatchRaises
    \/ SendFails

Spec == Init /\ [][Next]_vars

SpecTok == InitTok /\ [][Next]_vars

SpecUnread == InitUnread /\ [][Next]_vars

\* The loop of example_bot.py with a backend that answers every request:
\* messages arrive before the first cycle or after it has finished, and only
\* while a cycle is left to begin.
ArriveLate(surf, sender, content) ==
    /\ cycle = 0 \/ ~first_loop
    /\ cycle < MaxCycles
    /\ Arrive(surf, sender, content)

InitLoop == InitVars({"example_bot"}, {TRUE})

NextLoop ==
    \/ \E surf \in Surfaces : \E sender \in SendersOf(surf) :
          \E content \in Contents(prog, surf) : ArriveLate(surf, sender, content)
    \/ \E d \in DecorationsOf(prog) : Register(d)
    \/ StartCycle
    \/ FetchTeam
    \/ FetchUser
    \/ Dispatch

\* while True: check_messages(); sleep(1) -- a sequential program takes its
\* next step whenever it has one
FairLoop ==
    /\ WF_vars(\E d \in DecorationsOf(prog) : Register(d))
    /\ WF_vars(StartCycle)
    /\ WF_vars(FetchTeam)
    /\ WF_vars(FetchUser)
    /\ WF_vars(Dispatch)

SpecLoop == InitLoop /\ [][NextLoop]_vars /\ FairLoop

(* ------------------------- calls of the library ----------------------- *)
\* what @bot.command(...) can be given: the two decorations of example_bot.py,
\* a second function under the pattern of ping_cmd, without documentation
\* and with another display trigger, and a function under the pattern of the
\* help command
DecorationSpace ==
    Decorations \cup
    {[cmd |-> <<"^", ".ping">>, f |-> "roll_cmd", help_trigger |-> <<".roll">>,
      show_help |-> TRUE, doc |-> None],
     [cmd |-> <<"^", ".help">>, f |-> "swear_cmd", help_trigger |-> <<"^", ".help">>,
      show_help |-> FALSE, doc |-> <<"Respond to swear words">>]}

\* message_data as check_messages builds it
MessageDatas ==
    {[type |-> "team", body |-> <<".help">>, sender |-> u, team |-> t, channel |-> c] :
        u \in {"u1", "u2"}, t \in {<<"t1">>, <<"t2">>}, c \in {"c1", "c2"}}
    \cup {[type |-> "individual", body |-> <<".help">>, sender |-> u, team |-> <<>>,
           channel |-> ""] : u \in {"u1", "u2"}}

\* response_text
Texts == {<<"pong!">>, <<>>}

\* @bot.command(...)(func) with any arguments, any number of times
Decorate(d) ==
    /\ pc = "setup"
    /\ Len(regs) < MaxReg
    /\ registry' = make_command(registry, d)
    /\ regs' = Append(regs, d)
    /\ UNCHANGED <<prog, marksRead, msgs, pc, error, first_loop, cycle,
                   loopVars, history, arg, ret>>

\* bot.respond(response_text, message_data, at_mention)
CallRespond(response_text, message_data, at_mention) ==
    /\ arg' = [op |-> "respond", response_text |-> response_text,
               message_data |-> message_data, at_mention |-> at_mention,
               n |-> Len(regs)]
    /\ ret' = [logs |-> <<>>, send |-> respond(response_text, message_data, at_mention)]
    /\ UNCHANGED <<prog, marksRead, registry, msgs, pc, error, first_loop, cycle,
                   loopVars, history, regs>>

\* bot.help_cmd(message_data)
CallHelp(message_data) ==
    /\ arg' = [op |-> "help_cmd", response_text |-> <<>>,
               message_data |-> message_data, at_mention |-> FALSE,
               n |-> Len(regs)]
    /\ ret' = Handler("help_cmd", message_data, registry, FALSE)
    /\ registry' = RegistryAfter("help_cmd", registry)
    /\ UNCHANGED <<prog, marksRead, msgs, pc, error, first_loop, cycle,
                   loopVars, history, regs>>

InitLib == InitVars({"example_bot"}, {TRUE})

NextLib ==
    \/ \E d \in DecorationSpace : Decorate(d)
    \/ \E t \in Texts : \E md \in MessageDatas : \E at \in BOOLEAN :
          CallRespond(t, md, at)
    \/ \E md \in MessageDatas : CallHelp(md)

SpecLib == InitLib /\ [][NextLib]_vars

(* ------------------------------ the dice ------------------------------ *)
\* the decimal texts the model gives to int()
Numerals == {"-1", "0", "1", "2", "6", "10", "11", "99", "100", "101"}

\* int(tok) raises ValueError
NotInt(tok) == ~(Len(tok) = 1 /\ tok[1] \in Numerals)

\* int(tok) of a token that holds a decimal text
int(tok) ==
    CASE tok[1] = "-1" -> 0 - 1
      [] tok[1] = "0" -> 0
      [] tok[1] = "1" -> 1
      [] tok[1] = "2" -> 2
      [] tok[1] = "6" -> 6
      [] tok[1] = "10" -> 10
      [] tok[1] = "11" -> 11
      [] tok[1] = "99" -> 99
      [] tok[1] = "100" -> 100
      [] OTHER -> 101

RECURSIVE sum(_)
\* sum(dice)
sum(dice) == IF dice = <<>> THEN 0 ELSE Head(dice) + sum(Tail(dice))

\* what the loop of random.choice(range(1, num_of_sides)) can append to dice
Rolls(num_of_dice, num_of_sides) == [1..num_of_dice -> 1..(num_of_sides - 1)]

\* the try block of roll_cmd: num_of_dice and num_of_sides after it.  The
\* first statement that raises decides: ValueError (no closing quotation,
\* or a token that is no number) gives 0 and 0, IndexError (a token is
\* missing) gives 2 and 7
roll_cmd_args(body) ==
    LET sp == split(body)
        zero == [num_of_dice |-> 0, num_of_sides |-> 0]
        dflt == [num_of_dice |-> 2, num_of_sides |-> 7]
    IN  IF sp.err THEN zero
        ELSE IF Len(sp.toks) < 2 THEN dflt
        ELSE IF NotInt(sp.toks[2]) THEN zero
        ELSE IF Len(sp.toks) < 3 THEN dflt
        ELSE IF NotInt(sp.toks[3]) THEN zero
        ELSE [num_of_dice |-> int(sp.toks[2]), num_of_sides |-> int(sp.toks[3]) + 1]

\* the test of roll_cmd before it rolls
roll_cmd_in_range(a) ==
    a.num_of_dice \in 1..10 /\ a.num_of_sides \in 2..101

\* example_bot.roll_cmd with the values random.choice gave: what it raises,
\* the reply as a record (kind "bounds" for the text about the limits, kind
\* "roll" with the dice and the total the text names), num_of_dice and
\* num_of_sides as the loop over the dice found them, and the request sent
roll_cmd(message_data, dice) ==
    LET a == roll_cmd_args(message_data.body) IN
    IF ~roll_cmd_in_range(a)
    THEN [raise |-> "", kind |-> "bounds", rolled |-> a, dice |-> <<>>, total |-> 0,
          send |-> <<respond(<<"<dice> must be a number from 1 to 10, and <sides> must be a number from 2 to 100">>,
                             message_data, TRUE)>>]
    ELSE [raise |-> "", kind |-> "roll", rolled |-> a, dice |-> dice,
          total |-> sum(dice),
          send |-> <<respond(<<"You rolled">>, message_data, TRUE)>>]

\* the dice roll_cmd can draw for a body
roll_cmd_rolls(body) ==
    LET a == roll_cmd_args(body) IN
    IF roll_cmd_in_range(a) THEN Rolls(a.num_of_dice, a.num_of_sides) ELSE {<<>>}

\* the try block of the !roll branch of kb_bot.check_command: only
\* ValueError is caught, a missing token raises IndexError out of it
check_command_roll_args(command) ==
    LET zero == [raise |-> "", num_of_dice |-> 0, num_of_sides |-> 0]
        oops == [raise |-> "IndexError", num_of_dice |-> 0, num_of_sides |-> 0]
    IN  IF Len(command) < 2 THEN oops
        ELSE IF NotInt(command[2]) THEN zero
        ELSE IF Len(command) < 3 THEN oops
        ELSE IF NotInt(command[3]) THEN zero
        ELSE [raise |-> "", num_of_dice |-> int(command[2]),
              num_of_sides |-> int(command[3]) + 1]

\* the test of the !roll branch: outside the limits it takes 2 and 7
check_command_roll_in_range(a) ==
    a.num_of_dice \in 1..10 /\ a.num_of_sides \in 3..100

\* what the !roll branch rolls with
check_command_roll_used(a) ==
    IF check_command_roll_in_range(a) THEN a
    ELSE [a EXCEPT !.num_of_dice = 2, !.num_of_sides = 7]

\* kb_bot.check_command on a !roll message and the loop body around it,
\* with the values random.choice gave: response code 2, a reply with mention
check_command_roll(message_data, dice) ==
    LET sp == split(message_data.body)
        a == check_command_roll_args(sp.toks)
    IN  IF sp.err
        THEN [raise |-> "", kind |-> "none", rolled |-> a, dice |-> <<>>, total |-> 0,
              send |-> <<>>]
        ELSE IF a.raise # ""
        THEN [raise |-> a.raise, kind |-> "none", rolled |-> a, dice |-> <<>>,
              total |-> 0, send |-> <<>>]
        ELSE [raise |-> "", kind |-> "roll", rolled |-> check_command_roll_used(a),
              dice |-> dice, total |-> sum(dice),
              send |-> <<IF message_data.type = "team"
                         THEN send_team_message(message_data.team,
                                  <<"@", message_data.sender, ", ">> \o <<"You rolled">>,
                                  message_data.channel)
                         ELSE send_user_message(<<message_data.sender>>, <<"You rolled">>)>>]

\* the dice the !roll branch can draw for a body
check_command_rolls(body) ==
    LET sp == split(body)
        a == check_command_roll_args(sp.toks)
        u == check_command_roll_used(a)
    IN  IF sp.err \/ a.raise # "" THEN {<<>>}
        ELSE Rolls(u.num_of_dice, u.num_of_sides)

\* the arguments a roll message is given
RollArguments ==
    {<<>>, <<"2">>, <<"x">>, <<"\"">>, <<"11", "6">>, <<"0", "6">>, <<"-1", "6">>,
     <<"1", "6">>, <<"2", "6">>, <<"10", "2">>, <<"1", "0">>, <<"1", "1">>,
     <<"1", "2">>, <<"1", "99">>, <<"1", "100">>, <<"1", "101">>, <<"x", "6">>,
     <<"2", "x">>}

RECURSIVE Spaced(_)
\* the words of a message, each after a blank
Spaced(words) ==
    IF words = <<>> THEN <<>> ELSE <<" ", Head(words)>> \o Spaced(Tail(words))

\* the body of a roll message for a program
RollBody(p, words) ==
    <<IF p = "example_bot" THEN ".roll" ELSE "!roll">> \o Spaced(words)

\* the dice command of the running program
RollOf(message_data, dice) ==
    IF prog = "example_bot" THEN roll_cmd(message_data, dice)
    ELSE check_command_roll(message_data, dice)

RollsOf(body) ==
    IF prog = "example_bot" THEN roll_cmd_rolls(body) ELSE check_command_rolls(body)

\* a roll message is handled: roll_cmd is called by check_messages, or the
\* loop body of kb_bot.py runs check_command and sends what it returns
CallRoll(words, message_data) ==
    /\ arg = NoCall
    /\ LET md == [message_data EXCEPT !.body = RollBody(prog, words)] IN
       \E dice \in RollsOf(md.body) :
          /\ arg' = [op |-> "roll", response_text |-> words, message_data |-> md,
                     at_mention |-> TRUE, n |-> 0]
          /\ ret' = RollOf(md, dice)
    /\ UNCHANGED <<prog, marksRead, registry, msgs, pc, error, first_loop, cycle,
                   loopVars, history, regs>>

InitRoll == InitVars({"example_bot", "kb_bot"}, {TRUE})

NextRoll ==
    \E words \in RollArguments :
        \E md \in {m \in MessageDatas : m.sender = "u1" /\ m.team \in {<<>>, <<"t1">>}
                                         /\ m.channel \in {"", "c1"}} :
            CallRoll(words, md)

SpecRoll == InitRoll /\ [][NextRoll]_vars

(* ----------------------------- properties ----------------------------- *)
Body(id) == msgs[id.surf][id.n].body

\* some registered pattern is found in the body
Matches(body) == \E i \in 1..Len(registry) : re_search(registry[i].command, body)

\* the loop of the given cycle has finished with the message
Processed(id, c) ==
    /\ <<id, c>> \in seen
    /\ \/ cycle > c
       \/ cycle = c /\ \A i \in 1..Len(messages) : messages[i] # id

\* the message was in its conversation when the first cycle began
AtStartup(id) == cycle >= 1 /\ id.n <= backlog[id.surf]

\* C1: in the first poll cycle no handler is invoked and no message is
\* sent, whatever unread messages the monitored conversations hold.
C1_FirstCycleSilent ==
    /\ \A i \in 1..Len(calls) : calls[i].cycle > 1
    /\ \A i \in 1..Len(sent) : sent[i].cycle > 1

\* the first cycle has fetched and passed a message that holds a trigger
C1_Witness ==
    /\ prog = "example_bot"
    /\ cycle = 1
    /\ pc # "crashed"
    /\ \E id \in {e[1] : e \in seen} : Processed(id, 1) /\ Matches(Body(id))

\* C2: the first cycle, which dispatches nothing, fetches every monitored
\* conversation that held a message at startup, and with a backend that
\* marks what it returns read no message of the startup is ever answered.
C2_BacklogDrained ==
    /\ ~first_loop =>
          \A surf \in Monitored :
              backlog[surf] > 0 => [cycle |-> 1, surf |-> surf] \in fetches
    /\ marksRead =>
          /\ \A i \in 1..Len(calls) : ~AtStartup(calls[i].msg)
          /\ \A i \in 1..Len(sent) : ~AtStartup(sent[i].msg)

\* two cycles are over, a later message was answered, and a message of the
\* startup that holds a trigger was not
C2_Witness ==
    /\ marksRead
    /\ prog = "example_bot"
    /\ pc = "idle"
    /\ cycle >= 2
    /\ sent # <<>>
    /\ \E surf \in Monitored :
          /\ backlog[surf] > 0
          /\ Matches(msgs[surf][1].body)
          /\ msgs[surf][1].ctype = "text"

\* C3: a message the first cycle fetched and the second cycle fetches again
\* (it was still unread) has its handler invoked in the second cycle when
\* its body holds a registered pattern.
C3_SecondCycleDispatches ==
    prog = "example_bot" =>
        \A id \in {e[1] : e \in seen} :
            (Processed(id, 1) /\ Processed(id, 2) /\ Matches(Body(id)))
            => \E i \in 1..Len(calls) : calls[i].msg = id /\ calls[i].cycle = 2

\* a message seen by the first cycle is answered in the second
C3_Witness ==
    /\ prog = "example_bot"
    /\ \E id \in {e[1] : e \in seen} :
          /\ Processed(id, 1)
          /\ Processed(id, 2)
          /\ \E i \in 1..Len(sent) : sent[i].msg = id /\ sent[i].cycle = 2

\* the position of a pattern in the registry
IndexOf(cmd) == CHOOSE i \in 1..Len(registry) : registry[i].command = cmd

\* C4: the handler invoked for a message is the one of the first registered
\* pattern found in its body, and it is the only one invoked for it.
C4_FirstRegisteredWins ==
    prog = "example_bot" =>
        \A i \in 1..Len(calls) :
            /\ \E k \in 1..Len(registry) : registry[k].command = calls[i].cmd
            /\ re_search(calls[i].cmd, Body(calls[i].msg))
            /\ \A k \in 1..(IndexOf(calls[i].cmd) - 1) :
                  ~re_search(registry[k].command, Body(calls[i].msg))
            /\ calls[i].f = registry[IndexOf(calls[i].cmd)].f
            /\ \A j \in 1..Len(calls) :
                  (calls[j].msg = calls[i].msg /\ calls[j].cycle = calls[i].cycle) => j = i

\* a handler was invoked for a body in which two registered patterns are found
C4_Witness ==
    /\ prog = "example_bot"
    /\ \E i \in 1..Len(calls) :
          \E k, l \in 1..Len(registry) :
              /\ k # l
              /\ re_search(registry[k].command, Body(calls[i].msg))
              /\ re_search(registry[l].command, Body(calls[i].msg))

\* C5: a message in whose body no registered pattern is found causes no
\* handler invocation, no send and no log entry.
C5_NoMatchNoOp ==
    prog = "example_bot" =>
        /\ \A i \in 1..Len(calls) : Matches(Body(calls[i].msg))
        /\ \A i \in 1..Len(sent) : Matches(Body(sent[i].msg))
        /\ \A i \in 1..Len(log) : Matches(Body(log[i].msg))

\* a dispatching cycle has passed a text in which no pattern is found
C5_Witness ==
    /\ prog = "example_bot"
    /\ \E e \in seen :
          /\ e[2] >= 2
          /\ Processed(e[1], e[2])
          /\ ~Matches(Body(e[1]))

\* C6: a message causes at most one handler invocation in a cycle, and with
\* a backend that marks what it returns read at most one over all cycles.
C6_AtMostOnce ==
    \A i, j \in 1..Len(calls) :
        (/\ calls[i].msg = calls[j].msg
         /\ marksRead \/ calls[i].cycle = calls[j].cycle)
        => i = j

\* a message was dispatched in the second cycle and a third cycle, which
\* fetched its conversation again, is over
C6_Witness ==
    /\ marksRead
    /\ pc = "idle"
    /\ cycle = 3
    /\ \E i \in 1..Len(calls) :
          /\ calls[i].cycle = 2
          /\ [cycle |-> 3, surf |-> calls[i].msg.surf] \in fetches

\* C7: a handler that faults does not stop the process: the cycle goes on
\* with the remaining messages and conversations.
C7_HandlerFaultCaught ==
    (prog = "example_bot" /\ \E i \in 1..Len(calls) : ~calls[i].ok) => pc # "crashed"

\* C8: a failure of the backend on the fetch of one conversation does not
\* stop the process: the cycle goes on with the other conversations.
C8_FetchFailureSkipped == ~(pc = "crashed" /\ error.at = "read")

\* C9: no message body makes the step that takes the command token of the
\* body stop the process.
C9_TokenizingNeverAborts == ~(pc = "crashed" /\ error.at = "dispatch")

\* the team channels the current snapshot flags unread among the configured
UnreadConfigured ==
    {surf \in Monitored :
        /\ surf.type = "team"
        /\ surf.name \in DOMAIN conversations.teams
        /\ surf.channel \in DOMAIN conversations.teams[surf.name]
        /\ conversations.teams[surf.name][surf.channel]}

\* C10: the cycle fetches exactly the configured channels that its snapshot
\* flags unread, and a configured channel the snapshot lacks is skipped
\* without stopping the cycle.
C10_FetchesIntersection ==
    /\ error.exc # "KeyError"
    /\ pc \in {"users", "idle"} /\ cycle >= 1 =>
          {f.surf : f \in {g \in fetches : g.cycle = cycle /\ g.surf.type = "team"}}
          = UnreadConfigured

\* C11: within one cycle no handler runs for a team message after one ran
\* for a direct message, and the handlers of the messages of one conversation
\* run in the order the backend returned them (newest first), unsorted.
C11_TeamsFirstBackendOrder ==
    \A i, j \in 1..Len(calls) :
        (i < j /\ calls[i].cycle = calls[j].cycle) =>
            /\ ~(calls[i].msg.surf.type = "individual" /\ calls[j].msg.surf.type = "team")
            /\ calls[i].msg.surf = calls[j].msg.surf => calls[i].msg.n > calls[j].msg.n

\* one cycle answered a team message and then a direct message
C11_Witness ==
    \E i, j \in 1..Len(calls) :
        /\ i < j
        /\ calls[i].cycle = calls[j].cycle
        /\ calls[i].msg.surf.type = "team"
        /\ calls[j].msg.surf.type = "individual"

\* one cycle answered two messages of one conversation
C11_WitnessOrder ==
    \E i, j \in 1..Len(calls) :
        /\ i < j
        /\ calls[i].cycle = calls[j].cycle
        /\ calls[i].msg.surf = calls[j].msg.surf

\* C12: respond sends, for a team message with at_mention, the text after
\* "@<sender>, "; for a team message without at_mention and for every
\* individual message it sends the text as it is.
C12_MentionPrefix ==
    arg.op = "respond" =>
        ret.send.body =
            IF arg.message_data.type = "team" /\ arg.at_mention
            THEN <<"@", arg.message_data.sender, ", ">> \o arg.response_text
            ELSE arg.response_text

\* respond was called with at_mention for an individual message
C12_Witness ==
    /\ arg.op = "respond"
    /\ arg.message_data.type = "individual"
    /\ arg.at_mention
    /\ arg.response_text # <<>>

\* the conversation a send request is addressed to
Addressee(req) ==
    [type |-> IF req.members_type = "team" THEN "team" ELSE "individual",
     name |-> req.name, channel |-> req.topic_name]

\* the conversation a message_data came from
Origin(message_data) ==
    IF message_data.type = "team"
    THEN TeamSurface(message_data.team, message_data.channel)
    ELSE UserSurface(<<message_data.sender>>)

\* C13: the one request respond or help_cmd sends is addressed to the
\* conversation of the message: its team and channel, or the thread of its
\* sender.
C13_ReplyToOrigin ==
    arg.op \in {"respond", "help_cmd"} => Addressee(ret.send) = Origin(arg.message_data)

\* help_cmd was called for a message of the second channel of the second team
C13_Witness ==
    /\ arg.op = "help_cmd"
    /\ arg.message_data.type = "team"
    /\ arg.message_data.team = <<"t2">>
    /\ arg.message_data.channel = "c2"
    /\ ret.send.body # <<>>

\* the registrations made before the last call
RegsAtCall == SubSeq(regs, 1, arg.n)

\* the patterns registered, the help pattern of the constructor first, each
\* at the place of its first registration
PatternsInOrder(rs) ==
    Keys(<<InitRegistry[1].command>> \o [i \in 1..Len(rs) |-> rs[i].cmd], 1)

\* what the latest registration under a pattern gave: the display trigger,
\* the help text, the visibility and the function
LatestOf(rs, cmd) ==
    IF \E i \in 1..Len(rs) : rs[i].cmd = cmd
    THEN LET k == CHOOSE i \in 1..Len(rs) :
                     /\ rs[i].cmd = cmd
                     /\ \A j \in (i + 1)..Len(rs) : rs[j].cmd # cmd
         IN  [trigger |-> rs[k].help_trigger, help |-> rs[k].doc,
              show |-> rs[k].show_help, f |-> rs[k].f]
    ELSE [trigger |-> InitRegistry[1].help_trigger, help |-> InitRegistry[1].help,
          show |-> InitRegistry[1].show_help, f |-> InitRegistry[1].f]

\* one entry of the listing: the trigger in backquotes, the help text in a
\* block of three backquotes
Listing(trigger, help) ==
    <<"BQ">> \o trigger \o <<"BQ", "\n", "BQ3", "    ">> \o help \o <<"BQ3", "\n\n">>

\* C14: the text help_cmd sends is the listing of the patterns whose latest
\* registration is visible, each once, in the order of their first
\* registration, and of no other.
C14_HelpListsVisible ==
    arg.op = "help_cmd" =>
        LET order == PatternsInOrder(RegsAtCall)
            Visible(cmd) == LatestOf(RegsAtCall, cmd).show
            shown == SelectSeq(order, Visible)
        IN  ret.send.body =
                Concat([i \in 1..Len(shown) |->
                          Listing(Format(LatestOf(RegsAtCall, shown[i]).trigger),
                                  Format(LatestOf(RegsAtCall, shown[i]).help))])

\* help_cmd was called on a registry with two visible entries and a hidden one
C14_Witness ==
    /\ arg.op = "help_cmd"
    /\ arg.n = 2
    /\ \E i \in 1..2 : ~regs[i].show_help
    /\ \E i \in 1..2 : regs[i].show_help /\ regs[i].cmd # InitRegistry[1].command

\* sub in s
Contains(s, sub) == \E k \in 1..(Len(s) + 1) : OccursAt(sub, s, k)

\* the registration is the latest under its pattern among the first n
IsLatest(i, n) == \A j \in (i + 1)..n : regs[j].cmd # regs[i].cmd

\* C15: after a registration with visibility on, display trigger T and help
\* text H that no later registration replaced, the text help_cmd sends holds
\* T and H as they were given.
C15_HelpRoundTrip ==
    arg.op = "help_cmd" =>
        \A i \in 1..arg.n :
            (IsLatest(i, arg.n) /\ regs[i].show_help /\ regs[i].doc # None) =>
                /\ Contains(ret.send.body, regs[i].help_trigger)
                /\ Contains(ret.send.body, regs[i].doc)

\* help_cmd was called after ping_cmd was registered with its own display
\* trigger and its documentation
C15_Witness ==
    /\ arg.op = "help_cmd"
    /\ arg.n >= 1
    /\ regs[arg.n].show_help
    /\ regs[arg.n].doc # None
    /\ regs[arg.n].help_trigger # regs[arg.n].cmd
    /\ regs[arg.n].cmd # InitRegistry[1].command

\* C16: a visible entry whose function has no documentation is listed by
\* help_cmd with its display trigger and an empty block of help text.
C16_EmptyHelpBody ==
    arg.op = "help_cmd" =>
        \A i \in 1..arg.n :
            (IsLatest(i, arg.n) /\ regs[i].show_help /\ regs[i].doc = None) =>
                Contains(ret.send.body, Listing(regs[i].help_trigger, <<>>))

\* the registry holds the entry of the constructor under the help pattern:
\* bound to help_cmd and visible
HelpEntryIntact ==
    \E i \in 1..Len(registry) :
        /\ registry[i].command = InitRegistry[1].command
        /\ registry[i].f = "help_cmd"
        /\ registry[i].show_help

\* C17 as stated: after the construction and after any registrations the
\* registry holds, under the help pattern, a visible entry bound to help_cmd.
C17_HelpEntryAlways == HelpEntryIntact

\* C17, amended: the same as long as no registration was made under the help
\* pattern itself.
C17_HelpEntryKept ==
    (\A i \in 1..Len(regs) : regs[i].cmd # InitRegistry[1].command) => HelpEntryIntact

\* two registrations under other patterns were made
C17_Witness ==
    /\ Len(regs) = 2
    /\ \A i \in 1..Len(regs) : regs[i].cmd # InitRegistry[1].command
    /\ Len(registry) > 1

\* C18: the registry holds one entry for a pattern, and the entry of a
\* registered pattern has the function, display trigger, help text and
\* visibility of the latest registration under it.
C18_LatestRegistrationWins ==
    /\ \A i, j \in 1..Len(registry) :
          registry[i].command = registry[j].command => i = j
    /\ \A k \in 1..Len(regs) :
          \E i \in 1..Len(registry) :
              /\ registry[i].command = regs[k].cmd
              /\ registry[i].f = LatestOf(regs, regs[k].cmd).f
              /\ registry[i].help_trigger = LatestOf(regs, regs[k].cmd).trigger
              /\ registry[i].help = LatestOf(regs, regs[k].cmd).help
              /\ registry[i].show_help = LatestOf(regs, regs[k].cmd).show

\* a pattern was registered twice, with two functions
C18_Witness ==
    \E i, j \in 1..Len(regs) :
        /\ i < j
        /\ regs[i].cmd = regs[j].cmd
        /\ regs[i].f # regs[j].f
        /\ regs[i].doc # regs[j].doc

\* C19: a step that is not a registration (a poll cycle, a fetch, the
\* dispatch of a message with the reply of its handler, a call of respond or
\* of help_cmd) leaves the registry as it was: patterns, order and entries.
C19_RegistryFrame ==
    [][(regs' = regs) => (registry' = registry)]_vars

\* a cycle that dispatched to a handler is over and the registry holds the
\* entry of the constructor and the two of the decorations
C19_Witness ==
    /\ prog = "example_bot"
    /\ pc = "idle"
    /\ calls # <<>>
    /\ sent # <<>>
    /\ Len(registry) = 3

\* C20: the first cycle counts as completed (first_loop is false) in no state
\* before the first cycle has run to its end and in every state after; the
\* flag changes once, at the end of the first cycle, whatever that cycle
\* found, and never changes back.
C20_FlagSetOnce ==
    /\ [](first_loop <=> (cycle = 0 \/ (cycle = 1 /\ pc # "idle")))
    /\ [][first_loop' # first_loop =>
             (first_loop /\ ~first_loop' /\ cycle' = 1 /\ pc' = "idle")]_vars
    /\ [][~first_loop => ~first_loop']_vars

\* the first cycle of kb_bot.py is over and found no conversation at all,
\* and a later cycle has begun
C20_Witness ==
    /\ prog = "kb_bot"
    /\ cycle = 2
    /\ ~first_loop
    /\ \A surf \in Surfaces : backlog[surf] = 0
    /\ fetches # {}

\* C21: when the send request of a reply fails, the failure leaves respond
\* and its handler as the exception the send raised, and no request is sent
\* for that message in that cycle: there is no second attempt.
C21_SendFailurePropagates ==
    \A i \in 1..Len(calls) :
        ~calls[i].ok =>
            /\ pc = "crashed"
            /\ error = [exc |-> "CalledProcessError", at |-> "send"]
            /\ \A j \in 1..Len(sent) :
                  ~(sent[j].msg = calls[i].msg /\ sent[j].cycle = calls[i].cycle)

\* a reply was sent, and the send of the reply to a later message failed
C21_Witness ==
    /\ prog = "example_bot"
    /\ sent # <<>>
    /\ \E i \in 1..Len(calls) : ~calls[i].ok

\* C22: a team message that asks the dice command for 11 dice of 6 sides is
\* answered with the text about the limits; nothing is raised and no dice
\* are rolled.
C22_ElevenDiceRefused ==
    (arg.op = "roll" /\ arg.response_text = <<"11", "6">>
     /\ arg.message_data.type = "team") =>
        /\ ret.raise = ""
        /\ ret.kind = "bounds"
        /\ ret.dice = <<>>
        /\ Len(ret.send) = 1

\* the dice command was given two numbers
TwoNumbers ==
    /\ arg.op = "roll"
    /\ Len(arg.response_text) = 2
    /\ \A i \in 1..2 : ~NotInt(<<arg.response_text[i]>>)

\* C23: given two numbers, the dice command rolls that many dice of that
\* many sides exactly when the dice are 1 to 10 and the sides 2 to 100.
C23_RollsExactlyInLimits ==
    TwoNumbers =>
        LET d == int(<<arg.response_text[1]>>)
            sd == int(<<arg.response_text[2]>>)
            asked == /\ ret.kind = "roll"
                     /\ ret.rolled.num_of_dice = d
                     /\ ret.rolled.num_of_sides = sd + 1
                     /\ Len(ret.dice) = d
        IN  asked <=> (d \in 1..10 /\ sd \in 2..100)

\* C24: without a number the dice command raises nothing and answers with
\* two dice, each from 1 to 6, and their sum as the total.
C24_DefaultTwoSixSided ==
    (arg.op = "roll" /\ arg.response_text = <<>>) =>
        /\ ret.raise = ""
        /\ ret.kind = "roll"
        /\ Len(ret.dice) = 2
        /\ \A i \in 1..Len(ret.dice) : ret.dice[i] \in 1..6
        /\ ret.total = ret.dice[1] + ret.dice[2]

\* message n of the conversation arrived after the first cycle: it is a text
\* in a monitored conversation and a registered pattern is found in its body
Pending(surf, n) ==
    /\ cycle >= 1
    /\ surf \in Monitored
    /\ n > backlog[surf]
    /\ n <= Len(msgs[surf])
    /\ msgs[surf][n].ctype = "text"
    /\ Matches(msgs[surf][n].body)

\* a handler was invoked for message n of the conversation
Handled(surf, n) ==
    \E i \in 1..Len(calls) : calls[i].msg = [surf |-> surf, n |-> n]

\* C25: when the loop is fair and no request to the backend and no handler
\* fails, every text message that arrives unread in a monitored conversation
\* after the first cycle, with a body in which a registered pattern is
\* found, eventually has a handler invoked for it.
C25_EventuallyHandled ==
    \A surf \in Surfaces : \A n \in 1..MaxMsgs :
        Pending(surf, n) ~> Handled(surf, n)

\* the conversations a snapshot flags unread
FlaggedUnread(conv) ==
    {surf \in Surfaces :
        IF surf.type = "team"
        THEN /\ surf.name \in DOMAIN conv.teams
             /\ surf.channel \in DOMAIN conv.teams[surf.name]
             /\ conv.teams[surf.name][surf.channel]
        ELSE \E u \in DOMAIN conv.individuals :
                 surf = UserSurface(u) /\ conv.individuals[u]}

\* the read flags of the messages a conversation held before the step
ReadStateKept(surf) ==
    \A i \in 1..Len(msgs[surf]) : msgs'[surf][i].unread = msgs[surf][i].unread

\* C26: every read request of a cycle is for a monitored conversation that
\* the snapshot of the cycle flags unread; a cycle that has reached its end
\* has fetched every individual its snapshot flags unread; and no step
\* changes the read state of a conversation that is not monitored or that
\* the snapshot does not flag unread.
C26_FetchOnlyFlagged ==
    /\ [](\A f \in fetches :
             /\ f.surf \in Monitored
             /\ f.cycle = cycle => f.surf \in FlaggedUnread(conversations))
    /\ []((pc = "idle" /\ cycle >= 1) =>
             \A u \in DOMAIN conversations.individuals :
                 conversations.individuals[u] =>
                     [cycle |-> cycle, surf |-> UserSurface(u)] \in fetches)
    /\ [][\A surf \in Surfaces :
              (surf \notin Monitored \/ surf \notin FlaggedUnread(conversations))
                  => ReadStateKept(surf)]_vars

\* the second cycle is over: the individual was fetched in the first cycle
\* and, read since, not in the second, and a channel outside the
\* configuration holds an unread message that was never fetched
C26_Witness ==
    /\ pc = "idle"
    /\ cycle = 2
    /\ \E u \in DOMAIN conversations.individuals :
          /\ ~conversations.individuals[u]
          /\ [cycle |-> 1, surf |-> UserSurface(u)] \in fetches
          /\ [cycle |-> 2, surf |-> UserSurface(u)] \notin fetches
    /\ \E surf \in Surfaces \ Monitored :
          /\ surf \in FlaggedUnread(conversations)
          /\ \A f \in fetches : f.surf # surf

\* message bodies that match one or two of the registered patterns
PriorityBodies ==
    {<<".help", " ", "ass">>, <<".ping", " ", "ass">>, <<".ping">>, <<".help">>,
     <<"x", " ", "ass">>}

\* the patterns of a sequence that match the body, in the order of the sequence
MatchingIn(patterns, body) ==
    LET Found(cmd) == re_search(cmd, body)
    IN  SelectSeq(patterns, Found)

\* C28: registering a pattern again replaces its entry in place: the keys
\* of the registry are the patterns in the order of their first
\* registration (the help pattern of the constructor first), and so the
\* pattern chosen for a body that matches several is the one registered
\* first, whatever was registered again later.
C28_ReplacedInPlace ==
    /\ Commands(registry) = PatternsInOrder(regs)
    /\ \A body \in PriorityBodies :
          MatchingIn(PatternsInOrder(regs), body) # <<>> =>
              Trigger(found_cmds(registry, body))
                  = MatchingIn(PatternsInOrder(regs), body)[1]

\* the help pattern of the constructor was registered again after another
\* pattern, and a body matches both
C28_Witness ==
    /\ Len(regs) >= 2
    /\ regs[1].cmd # InitRegistry[1].command
    /\ regs[Len(regs)].cmd = InitRegistry[1].command
    /\ \E body \in PriorityBodies :
          /\ re_search(regs[1].cmd, body)
          /\ re_search(InitRegistry[1].command, body)

(* ---------------------- direct-conversation names --------------------- *)
\* usernames: one or two chunks of letters and digits
Usernames ==
    LET parts == {"bot", "fan", "u1"}
    IN  {<<a>> : a \in parts} \cup {<<a, b>> : a \in parts, b \in parts}

\* "{},{}".format(self.username, user): the channel name that
\* send_user_message and get_user_messages put in their request
channel_name(self_username, user) == self_username \o <<",">> \o user

\* conversation['channel']['name'] of the one-to-one conversation of two
\* users: the two usernames joined by a comma, in either order
WholeNames(a, b) == {channel_name(a, b), channel_name(b, a)}

\* get_conversations of a bot named self_username reads the conversation
\* whole_name held with user; the key of result['individuals'] is then given
\* to get_user_messages and to send_user_message
CallNames(self_username, user, whole_name) ==
    /\ arg' = [op |-> "names", response_text |-> whole_name,
               message_data |-> [username |-> self_username, user |-> user],
               at_mention |-> FALSE, n |-> 0]
    /\ ret' = LET name == individual_name(whole_name, self_username)
              IN  [name |-> name,
                   read |-> channel_name(self_username, name),
                   send |-> channel_name(self_username, name)]
    /\ UNCHANGED <<prog, marksRead, registry, msgs, pc, error, first_loop, cycle,
                   loopVars, history, regs>>

InitNames == InitVars({"example_bot"}, {TRUE})

NextNames ==
    \E b \in Usernames : \E u \in Usernames \ {b} : \E w \in WholeNames(b, u) :
        CallNames(b, u, w)

SpecNames == InitNames /\ [][NextNames]_vars

\* C27: the name get_conversations derives for the one-to-one conversation
\* of the bot B and another user U is U, and the channel names that
\* get_user_messages and send_user_message build from it are "B,U".
C27_NameRoundTrip ==
    arg.op = "names" =>
        /\ ret.name = arg.message_data.user
        /\ ret.read = channel_name(arg.message_data.username, arg.message_data.user)
        /\ ret.send = channel_name(arg.message_data.username, arg.message_data.user)

====
